---- MODULE Spec2Model ----
(***************************************************************************)
(* A model of OpenClow/extract_metadata.py: the DisclosureScanner syntax   *)
(* tree visitor, scan_file, the prose and generic extractors and the       *)
(* directory walk of the __main__ block.                                    *)
(*                                                                         *)
(* Text is a sequence of atoms.  An atom is one character ("#", " ",       *)
(* "\n", ".", a letter) or an opaque word holding neither whitespace nor   *)
(* a leading marker, so that startswith, strip, lstrip, split and join act *)
(* on atoms exactly as they act on the characters.  A Python value of      *)
(* mixed type (a parameter's "type") is a record tagged with its Python    *)
(* type.                                                                   *)
(***************************************************************************)
EXTENDS Integers, Sequences, FiniteSets, TLC

VARIABLES pc, file, result, root, di, queue, all_results

vars == <<pc, file, result, root, di, queue, all_results>>

(***************************************************************************)
(* Bounds of the explored inputs.                                          *)
(***************************************************************************)
MaxLines == 4
MaxParams == 2
MaxDocLen == 5
MaxMdLines == 4
MaxFiles == 3
MaxDirs == 2

(***************************************************************************)
(* str methods.                                                            *)
(***************************************************************************)
Whitespace == {" ", "\n"}

startswith(s, p) == Len(s) >= Len(p) /\ SubSeq(s, 1, Len(p)) = p

endswith(s, p) == Len(s) >= Len(p) /\ SubSeq(s, Len(s) - Len(p) + 1, Len(s)) = p

RECURSIVE lstrip_chars(_, _)
lstrip_chars(s, cs) ==
    IF s # <<>> /\ Head(s) \in cs THEN lstrip_chars(Tail(s), cs) ELSE s

RECURSIVE rstrip_chars(_, _)
rstrip_chars(s, cs) ==
    IF s # <<>> /\ s[Len(s)] \in cs
    THEN rstrip_chars(SubSeq(s, 1, Len(s) - 1), cs)
    ELSE s

lstrip(s) == lstrip_chars(s, Whitespace)

rstrip(s) == rstrip_chars(s, Whitespace)

strip(s) == lstrip(rstrip(s))

\* str.split("\n"): the pieces between the newline atoms, at least one piece.
RECURSIVE split_lines(_)
split_lines(s) ==
    IF \A i \in 1..Len(s) : s[i] # "\n"
    THEN <<s>>
    ELSE LET k == CHOOSE i \in 1..Len(s) :
                      s[i] = "\n" /\ \A j \in 1..(i - 1) : s[j] # "\n"
         IN <<SubSeq(s, 1, k - 1)>> \o split_lines(SubSeq(s, k + 1, Len(s)))

\* "\n".join(lines)
RECURSIVE join_lines(_)
join_lines(ls) ==
    IF ls = <<>> THEN <<>>
    ELSE IF Len(ls) = 1 THEN ls[1]
    ELSE ls[1] \o <<"\n">> \o join_lines(Tail(ls))

Min(S) == CHOOSE x \in S : \A y \in S : x <= y

Max(S) == CHOOSE x \in S : \A y \in S : y <= x

\* The elements of a set of integers in ascending order.
RECURSIVE Ascending(_)
Ascending(S) ==
    IF S = {} THEN <<>> ELSE <<Min(S)>> \o Ascending(S \ {Min(S)})

(***************************************************************************)
(* inspect.cleandoc, which ast.get_docstring applies (clean=True).         *)
(***************************************************************************)
Indent(line) == Len(line) - Len(lstrip(line))

RECURSIVE pop_trailing_empty(_)
pop_trailing_empty(ls) ==
    IF ls # <<>> /\ ls[Len(ls)] = <<>>
    THEN pop_trailing_empty(SubSeq(ls, 1, Len(ls) - 1))
    ELSE ls

RECURSIVE pop_leading_empty(_)
pop_leading_empty(ls) ==
    IF ls # <<>> /\ Head(ls) = <<>> THEN pop_leading_empty(Tail(ls)) ELSE ls

cleandoc(doc) ==
    LET lines == split_lines(doc)
        content == {i \in 2..Len(lines) : Len(lstrip(lines[i])) > 0}
        dedent(i) ==
            IF i = 1 THEN lstrip(lines[1])
            ELSE IF content = {} THEN lines[i]
            ELSE LET margin == Min({Indent(lines[j]) : j \in content})
                 IN SubSeq(lines[i], margin + 1, Len(lines[i]))
        dedented == [i \in 1..Len(lines) |-> dedent(i)]
    IN join_lines(pop_leading_empty(pop_trailing_empty(dedented)))

(***************************************************************************)
(* Python source text and the tree ast.parse builds from it.               *)
(*                                                                         *)
(* A source is a sequence of logical lines.  A line is a statement at an   *)
(* indentation depth: a "def", an "async" def, a "class", an "if", the    *)
(* "else" clause of an if, a "try", the "finally" clause of a try, an      *)
(* "expr" statement holding a constant, or "pass".  A compound statement   *)
(* is inline when its suite is the simple statement on its own line        *)
(* (def f(): pass) and opens an indented block otherwise.  A node of the   *)
(* tree is the number of the line of its statement; 0 is the Module.       *)
(***************************************************************************)
NoAnn == [node |-> "None", id |-> "", vtype |-> "", v |-> ""]

Name(id) == [node |-> "Name", id |-> id, vtype |-> "", v |-> ""]

Constant(vtype, v) == [node |-> "Constant", id |-> "", vtype |-> vtype, v |-> v]

OtherAnn(node) == [node |-> node, id |-> "", vtype |-> "", v |-> ""]

NoValue == [vtype |-> "", v |-> <<>>]

Stmt(kind, indent, inline, name, posonlyargs, args, returns, value) ==
    [kind |-> kind, indent |-> indent, inline |-> inline, name |-> name,
     posonlyargs |-> posonlyargs, args |-> args, returns |-> returns,
     value |-> value]

Def(indent, inline, name, posonlyargs, args, returns) ==
    Stmt("def", indent, inline, name, posonlyargs, args, returns, NoValue)

AsyncDef(indent, inline, name) ==
    Stmt("async", indent, inline, name, <<>>, <<>>, NoAnn, NoValue)

ClassDef(indent) == Stmt("class", indent, FALSE, <<"K">>, <<>>, <<>>, NoAnn, NoValue)

If(indent) == Stmt("if", indent, FALSE, <<>>, <<>>, <<>>, NoAnn, NoValue)

Else(indent) == Stmt("else", indent, FALSE, <<>>, <<>>, <<>>, NoAnn, NoValue)

Try(indent) == Stmt("try", indent, FALSE, <<>>, <<>>, <<>>, NoAnn, NoValue)

Finally(indent) == Stmt("finally", indent, FALSE, <<>>, <<>>, <<>>, NoAnn, NoValue)

Expr(indent, vtype, v) ==
    Stmt("expr", indent, FALSE, <<>>, <<>>, <<>>, NoAnn, [vtype |-> vtype, v |-> v])

Pass(indent) == Stmt("pass", indent, FALSE, <<>>, <<>>, <<>>, NoAnn, NoValue)

Compound == {"def", "async", "class", "if", "else", "try", "finally"}

\* The clauses, and the statement each one continues.
ClauseOfStmt == [else |-> "if", finally |-> "try"]

Clauses == DOMAIN ClauseOfStmt

\* The line ends in ":" and its suite is the indented block that follows.
OpensBlock(line) == line.kind \in Compound /\ ~line.inline

\* The nearest earlier line that is not deeper than line i: the statement whose
\* clause line i would continue.
Opens(src, i) ==
    LET c == {j \in 1..(i - 1) : src[j].indent <= src[i].indent}
    IN IF c = {} THEN 0 ELSE Max(c)

\* The first line after line t that is not deeper than it: it ends t's block.
Closes(src, t) ==
    LET c == {j \in (t + 1)..Len(src) : src[j].indent <= src[t].indent}
    IN IF c = {} THEN 0 ELSE Min(c)

\* What the grammar asks of the lines so far: a block after each line that
\* opens one and nowhere else, each clause right after the block of its
\* statement, and a try, once its block has ended, followed by its finally.
WellFormed(src) ==
    \A i \in 1..Len(src) :
        /\ i = 1 => src[i].indent = 0
        /\ i > 1 => IF OpensBlock(src[i - 1])
                    THEN src[i].indent = src[i - 1].indent + 1
                    ELSE src[i].indent <= src[i - 1].indent
        /\ src[i].kind \in Clauses =>
              /\ Opens(src, i) # 0
              /\ src[Opens(src, i)].kind = ClauseOfStmt[src[i].kind]
              /\ src[Opens(src, i)].indent = src[i].indent
        /\ src[i].kind = "try" /\ Closes(src, i) # 0 =>
              /\ src[Closes(src, i)].kind = "finally"
              /\ src[Closes(src, i)].indent = src[i].indent

\* ast.parse raises SyntaxError unless this holds.
SyntaxOK(src) ==
    /\ WellFormed(src)
    /\ Len(src) > 0 => ~OpensBlock(src[Len(src)])
    /\ \A i \in 1..Len(src) : src[i].kind = "try" => Closes(src, i) # 0

\* The line whose block holds line i; 0 for a line of the module's top level.
Owner(src, i) ==
    LET up == {j \in 1..(i - 1) : src[j].indent < src[i].indent}
    IN IF up = {} THEN 0 ELSE Max(up)

\* The statements of the block a line (or the module, 0) opens, in order.
Stmts(src, h) ==
    Ascending({i \in 1..Len(src) : Owner(src, i) = h /\ src[i].kind \notin Clauses})

\* The line of the clause that continues statement n; 0 when it has none.
ClauseOf(src, n) ==
    LET cs == {c \in (n + 1)..Len(src) :
                  src[c].kind \in Clauses /\ Opens(src, c) = n}
    IN IF cs = {} THEN 0 ELSE Min(cs)

body(src, n) == Stmts(src, n)

orelse(src, n) ==
    IF n # 0 /\ src[n].kind = "if" /\ ClauseOf(src, n) # 0
    THEN Stmts(src, ClauseOf(src, n))
    ELSE <<>>

finalbody(src, n) ==
    IF n # 0 /\ src[n].kind = "try" /\ ClauseOf(src, n) # 0
    THEN Stmts(src, ClauseOf(src, n))
    ELSE <<>>

RECURSIVE CountNewlines(_)
CountNewlines(s) ==
    IF s = <<>> THEN 0
    ELSE (IF Head(s) = "\n" THEN 1 ELSE 0) + CountNewlines(Tail(s))

\* Physical lines a logical line takes: a string constant spans its newlines.
Height(line) ==
    IF line.kind = "expr" THEN 1 + CountNewlines(line.value.v) ELSE 1

\* node.lineno: the 1-based physical line on which line i begins.
RECURSIVE lineno(_, _)
lineno(src, i) ==
    IF i = 1 THEN 1 ELSE lineno(src, i - 1) + Height(src[i - 1])

(***************************************************************************)
(* DisclosureScanner.                                                      *)
(***************************************************************************)
PyStr(s) == [py |-> "str", v |-> s]

None == [some |-> FALSE, text |-> <<>>]

Some(text) == [some |-> TRUE, text |-> text]

NoDescription == <<"No description provided.">>

\* get_docstring with clean=False: the raw constant.
get_docstring_raw(src, n) ==
    LET b == body(src, n)
    IN IF b # <<>> /\ src[b[1]].kind = "expr" /\ src[b[1]].value.vtype = "str"
       THEN Some(src[b[1]].value.v)
       ELSE None

\* ast.get_docstring(node): the cleaned value of the first statement of the body
\* when it is an expression statement holding a str constant, else None.  The
\* body of an inline suite is its one simple statement, never a docstring here.
get_docstring(src, n) ==
    LET b == body(src, n)
    IN IF b # <<>> /\ src[b[1]].kind = "expr" /\ src[b[1]].value.vtype = "str"
       THEN Some(cleandoc(src[b[1]].value.v))
       ELSE None

\* a or b, for a docstring a: None and the empty string are both false.
Description(doc) == IF doc.some /\ doc.text # <<>> THEN doc.text ELSE NoDescription

\* The default taken from _get_return_type's sentinel.
arg_type_unknown(annotation) ==
    IF annotation.node = "Name" THEN PyStr(annotation.id)
    ELSE IF annotation.node = "Constant"
         THEN [py |-> annotation.vtype, v |-> annotation.v]
         ELSE PyStr("Unknown")

arg_type(annotation) ==
    IF annotation.node = "Name" THEN PyStr(annotation.id)
    ELSE IF annotation.node = "Constant"
         THEN [py |-> annotation.vtype, v |-> annotation.v]
         ELSE PyStr("Any")

_get_args(node) ==
    [i \in 1..Len(node.args) |->
        [name |-> node.args[i].arg, type |-> arg_type(node.args[i].annotation)]]

_get_return_type(node) ==
    IF node.returns.node = "Name" THEN node.returns.id ELSE "Unknown"

\* No visibility filter.
IsPublic_all(name) == TRUE

IsPublic(name) == ~startswith(name, <<"_">>)

func_data(src, n) ==
    [name |-> src[n].name,
     description |-> Description(get_docstring(src, n)),
     parameters |-> _get_args(src[n]),
     return_annotation |-> _get_return_type(src[n]),
     line_number |-> lineno(src, n)]

\* The else branch of an If before its body.
iter_child_nodes_orelse_first(src, n) ==
    orelse(src, n) \o body(src, n) \o finalbody(src, n)

\* ast.iter_child_nodes(node): the node's fields in the order of _fields, each
\* list in order.  The statements sit in body, then in orelse (an If) or in
\* finalbody (a Try); the other fields (arguments, annotations, the test of an
\* If, decorators, bases) hold expressions, which hold no function definition.
iter_child_nodes(src, n) == body(src, n) \o orelse(src, n) \o finalbody(src, n)

RECURSIVE visit(_, _, _)

RECURSIVE visit_each(_, _, _)
visit_each(src, nodes, metadata) ==
    IF nodes = <<>> THEN metadata
    ELSE visit_each(src, Tail(nodes), visit(src, Head(nodes), metadata))

generic_visit(src, n, metadata) ==
    visit_each(src, iter_child_nodes(src, n), metadata)

\* No generic_visit of a function definition: its body is not walked.
visit_FunctionDef_no_descent(src, n, metadata) ==
    IF IsPublic(src[n].name)
    THEN Append(metadata, func_data(src, n))
    ELSE metadata

visit_FunctionDef(src, n, metadata) ==
    generic_visit(src, n,
        IF IsPublic(src[n].name)
        THEN Append(metadata, func_data(src, n))
        ELSE metadata)

\* NodeVisitor.visit: the method named after the node's class, generic_visit
\* when the visitor has none.  The scanner defines visit_FunctionDef alone.
visit(src, n, metadata) ==
    IF n # 0 /\ src[n].kind = "def"
    THEN visit_FunctionDef(src, n, metadata)
    ELSE generic_visit(src, n, metadata)

(***************************************************************************)
(* scan_file.  A file is [exists, readable, content]; a call either returns *)
(* a list or a dict, or raises.                                            *)
(***************************************************************************)
ReturnList(items) ==
    [raised |-> FALSE, exc |-> "", py |-> "list", items |-> items, error |-> ""]

ReturnDict(error) ==
    [raised |-> FALSE, exc |-> "", py |-> "dict", items |-> <<>>, error |-> error]

Raise(exc) ==
    [raised |-> TRUE, exc |-> exc, py |-> "", items |-> <<>>, error |-> ""]

scan_file(f) ==
    IF ~f.exists THEN ReturnDict("File not found.")
    ELSE IF ~f.readable THEN Raise("PermissionError")
    ELSE IF ~SyntaxOK(f.content) THEN Raise("SyntaxError")
    ELSE ReturnList(visit(f.content, 0, <<>>))

NoFile == [exists |-> FALSE, readable |-> FALSE, content |-> <<>>]

Unreadable == [exists |-> TRUE, readable |-> FALSE, content |-> <<>>]

Readable(content) == [exists |-> TRUE, readable |-> TRUE, content |-> content]

Files(contents) == {NoFile, Unreadable} \cup {Readable(c) : c \in contents}

(***************************************************************************)
(* The sources explored: every nesting of function definitions, classes    *)
(* conditionals and try blocks of at most MaxLines lines, formed as the    *)
(* grammar asks; one that ends in a line opening a block, or before the    *)
(* finally of a try, is a syntax error.                                    *)
(***************************************************************************)
StructLinesAt(d) ==
    {Def(d, inl, nm, <<>>, <<>>, NoAnn) :
        inl \in BOOLEAN, nm \in {<<"f">>, <<"_", "g">>}}
    \cup {AsyncDef(d, inl, <<"h">>) : inl \in BOOLEAN}
    \cup {ClassDef(d), If(d), Else(d), Try(d), Finally(d),
          Expr(d, "str", <<"x", "\n", "x">>)}

NextIndents(s) ==
    IF s = <<>> THEN {0}
    ELSE IF OpensBlock(s[Len(s)]) THEN {s[Len(s)].indent + 1}
    ELSE 0..s[Len(s)].indent

\* The lines that may follow the lines s.
Extensions(s) ==
    {l \in UNION {StructLinesAt(d) : d \in NextIndents(s)} :
        WellFormed(Append(s, l))}

\* The file holds the lines s followed by at most k more.
RECURSIVE Written(_, _)
Written(s, k) ==
    \/ file = Readable(s)
    \/ /\ k > 0
       /\ \E l \in Extensions(s) : Written(Append(s, l), k - 1)

(***************************************************************************)
(* A call of scan_file.                                                    *)
(***************************************************************************)
Idle == /\ root = [isdir |-> FALSE, dirs |-> <<>>]
        /\ di = 0
        /\ queue = <<>>
        /\ all_results = <<>>

CallScanFile ==
    /\ pc = "scan_file"
    /\ result' = scan_file(file)
    /\ pc' = IF scan_file(file).raised THEN "raised" ELSE "returned"
    /\ UNCHANGED <<file, root, di, queue, all_results>>

InitScan ==
    /\ pc = "scan_file"
    /\ \/ file \in {NoFile, Unreadable}
       \/ Written(<<>>, MaxLines)
    /\ result = Raise("")
    /\ Idle

NextScan == CallScanFile

SpecScan == InitScan /\ [][NextScan]_vars

(***************************************************************************)
(* Signatures: one function whose parameters, positional-only (before "/") *)
(* and positional-or-keyword, carry every shape of annotation.             *)
(***************************************************************************)
Annotations ==
    {NoAnn, Name("int"), Constant("int", "42"), Constant("str", "Foo"),
     Constant("NoneType", "None"), OtherAnn("Subscript"), OtherAnn("Attribute"),
     OtherAnn("BinOp")}

ParamNames == <<"a", "b", "c", "d">>

ParamLists(k) ==
    {[i \in 1..k |-> [arg |-> ParamNames[i], annotation |-> anns[i]]] :
        anns \in [1..k -> Annotations]}

SigSources(n) ==
    {<<Def(0, TRUE, <<"f">>, SubSeq(ps, 1, cut), SubSeq(ps, cut + 1, Len(ps)), ret)>> :
        <<ps, cut, ret>> \in
            {t \in (UNION {ParamLists(k) : k \in 0..n}) \X (0..n)
                     \X {NoAnn, Name("int"), OtherAnn("Subscript")} :
                t[2] <= Len(t[1])}}

InitSig ==
    /\ pc = "scan_file"
    /\ file \in Files(SigSources(MaxParams))
    /\ result = Raise("")
    /\ Idle

SpecSig == InitSig /\ [][NextScan]_vars

(***************************************************************************)
(* Documentation strings: one function whose body starts with each text of *)
(* at most MaxDocLen atoms, or with no string at all.                      *)
(***************************************************************************)
RECURSIVE Texts(_, _)
Texts(alphabet, k) ==
    IF k = 0 THEN {<<>>}
    ELSE Texts(alphabet, k - 1)
         \cup {Append(t, a) : t \in Texts(alphabet, k - 1), a \in alphabet}

DocTexts(n) == Texts({"x", " ", "\n"}, n)

F == Def(0, FALSE, <<"f">>, <<>>, <<>>, NoAnn)

DocSources(n) ==
    {<<F, Expr(1, "str", d)>> : d \in DocTexts(n)}
    \cup {<<F, Expr(1, "str", d), Pass(1)>> : d \in DocTexts(n)}
    \cup {<<Def(0, TRUE, <<"f">>, <<>>, <<>>, NoAnn)>>,
          <<F, Expr(1, "int", <<"42">>)>>,
          <<F, Pass(1)>>,
          <<F, Pass(1), Expr(1, "str", <<"x">>)>>}

InitDoc ==
    /\ pc = "scan_file"
    /\ file \in Files(DocSources(MaxDocLen))
    /\ result = Raise("")
    /\ Idle

SpecDoc == InitDoc /\ [][NextScan]_vars

(***************************************************************************)
(* scan_markdown and scan_generic.  A prose file's content is its lines,   *)
(* without their line ends; a title of None is the empty text, which       *)
(* "not title" and "title or" do not tell apart.                           *)
(***************************************************************************)
NoDescriptionAvailable == <<"No description available.">>

ReadLimit == 2048

SummaryLimit == 1024

\* The for loop of scan_markdown from line i on; st is the loop's state.
RECURSIVE md_loop(_, _, _)
md_loop(lines, i, st) ==
    IF i > Len(lines) THEN st
    ELSE LET ln == lines[i]
             title == IF st.title = <<>> /\ startswith(ln, <<"#">>)
                      THEN strip(lstrip_chars(ln, {"#"}))
                      ELSE st.title
         IN IF strip(ln) = <<>>
            THEN IF st.in_para
                 THEN [st EXCEPT !.title = title]
                 ELSE md_loop(lines, i + 1, [st EXCEPT !.title = title])
            ELSE md_loop(lines, i + 1,
                         [title |-> title,
                          description_lines |-> Append(st.description_lines, ln),
                          in_para |-> TRUE])

\* The fallback: the first line that is not blank, stripped.
first_non_empty(lines) ==
    LET S == {i \in 1..Len(lines) : strip(lines[i]) # <<>>}
    IN IF S = {} THEN <<>> ELSE strip(lines[Min(S)])

scan_markdown(fname, f) ==
    IF ~f.exists \/ ~f.readable THEN [error |-> "OSError"]
    ELSE LET lines == [i \in 1..Len(f.content) |-> rstrip(f.content[i])]
             st == md_loop(lines, 1,
                           [title |-> <<>>, description_lines |-> <<>>,
                            in_para |-> FALSE])
             title == IF st.title = <<>> THEN first_non_empty(lines) ELSE st.title
         IN [type |-> "markdown",
             title |-> IF title = <<>> THEN fname ELSE title,
             description |-> IF st.description_lines # <<>>
                             THEN strip(join_lines(st.description_lines))
                             ELSE NoDescriptionAvailable]

scan_generic(f) ==
    IF ~f.exists \/ ~f.readable THEN [error |-> "OSError"]
    ELSE LET content == SubSeq(f.content, 1,
                               IF Len(f.content) < ReadLimit
                               THEN Len(f.content) ELSE ReadLimit)
         IN [type |-> "generic",
             summary |-> SubSeq(content, 1,
                                IF Len(content) < SummaryLimit
                                THEN Len(content) ELSE SummaryLimit)]

(***************************************************************************)
(* A call of scan_markdown on a file of at most MaxMdLines lines.          *)
(***************************************************************************)
MdLines ==
    {<<>>, <<" ">>, <<"#">>, <<"#", " ", "T">>, <<"#", "#", "T", " ">>, <<"t">>,
     <<" ", "t">>, <<" ", "#", "T">>, <<"t", " ", "u">>, <<"#", " ">>}

README == <<"R", "E", "A", "D", "M", "E", ".", "m", "d">>

CallScanMarkdown ==
    /\ pc = "scan_markdown"
    /\ result' = scan_markdown(README, file)
    /\ pc' = "md_returned"
    /\ UNCHANGED <<file, root, di, queue, all_results>>

InitMd ==
    /\ pc = "scan_markdown"
    /\ \/ file \in {NoFile, Unreadable}
       \/ \E n \in 0..MaxMdLines : file \in {Readable(c) : c \in [1..n -> MdLines]}
    /\ result = [error |-> ""]
    /\ Idle

NextMd == CallScanMarkdown

SpecMd == InitMd /\ [][NextMd]_vars

(***************************************************************************)
(* The directory walk of the __main__ block.  root is the context          *)
(* directory: whether it is one, and what os.walk yields for it, top-down: *)
(* each directory's path relative to the root and its files, in the order  *)
(* the system enumerates them, with what each file holds.                  *)
(***************************************************************************)
ord(c) ==
    CASE c = "." -> 46 [] c = "/" -> 47 [] c = "A" -> 65 [] c = "D" -> 68
      [] c = "E" -> 69 [] c = "M" -> 77 [] c = "R" -> 82 [] c = "a" -> 97
      [] c = "b" -> 98 [] c = "d" -> 100 [] c = "i" -> 105 [] c = "m" -> 109
      [] c = "n" -> 110 [] c = "p" -> 112 [] c = "s" -> 115 [] c = "t" -> 116
      [] c = "y" -> 121

\* a < b for str: by code point, a proper prefix first.
RECURSIVE str_lt(_, _)
str_lt(a, b) ==
    IF b = <<>> THEN FALSE
    ELSE IF a = <<>> THEN TRUE
    ELSE IF Head(a) = Head(b) THEN str_lt(Tail(a), Tail(b))
    ELSE ord(Head(a)) < ord(Head(b))

\* No sort: the order of enumeration.
sorted_not(names) == names

\* sorted(files)
RECURSIVE sorted(_)
sorted(names) ==
    IF names = <<>> THEN <<>>
    ELSE LET m == CHOOSE i \in 1..Len(names) :
                      \A j \in 1..Len(names) : ~str_lt(names[j], names[i])
         IN <<names[m]>>
            \o sorted(SubSeq(names, 1, m - 1) \o SubSeq(names, m + 1, Len(names)))

\* os.path.relpath(os.path.join(root, fname), CONTEXT_DIR)
relpath(rel, fname) == IF rel = <<>> THEN fname ELSE rel \o <<"/">> \o fname

filenames(dir) == [i \in 1..Len(dir.listing) |-> dir.listing[i].name]

\* What the path of fname in dir leads to.
lookup(dir, fname) ==
    dir.listing[CHOOSE i \in 1..Len(dir.listing) : dir.listing[i].name = fname].file

Update(fields) == [raised |-> FALSE, exc |-> "", fields |-> fields]

Propagate(exc) == [raised |-> TRUE, exc |-> exc, fields |-> [error |-> exc]]

\* except OSError
Caught_OSError(exc) == exc \in {"PermissionError", "FileNotFoundError"}

\* except Exception
Caught(exc) ==
    exc \in {"SyntaxError", "PermissionError", "FileNotFoundError",
             "UnicodeDecodeError", "ValueError", "RecursionError"}

\* The branches on the file name's suffix: what entry.update is given, or the
\* exception that leaves the loop.
dispatch(fname, f) ==
    IF endswith(fname, <<".", "p", "y">>)
    THEN LET funcs == scan_file(f)
         IN IF funcs.raised
            THEN IF Caught(funcs.exc)
                 THEN Update([error |-> funcs.exc])
                 ELSE Propagate(funcs.exc)
            ELSE Update([type |-> "python",
                         functions |-> [py |-> funcs.py, items |-> funcs.items,
                                        error |-> funcs.error]])
    ELSE IF \/ endswith(fname, <<".", "m", "d">>)
            \/ endswith(fname, <<".", "m", "a", "r", "k", "d", "o", "w", "n">>)
            \/ endswith(fname, <<".", "t", "x", "t">>)
    THEN Update(scan_markdown(fname, f))
    ELSE Update(scan_generic(f))

\* if not os.path.isdir(CONTEXT_DIR): print, then sys.exit(1); sys is not
\* imported, so the call raises NameError: either way the run ends there with
\* exit status 1.
CheckRoot ==
    /\ pc = "main"
    /\ pc' = IF root.isdir THEN "walk" ELSE "exit_1"
    /\ UNCHANGED <<file, result, root, di, queue, all_results>>

\* os.walk yields the next directory; the inner loop starts on sorted(files).
NextDir ==
    /\ pc = "walk"
    /\ queue = <<>>
    /\ di < Len(root.dirs)
    /\ di' = di + 1
    /\ queue' = sorted(filenames(root.dirs[di + 1]))
    /\ UNCHANGED <<pc, file, result, root, all_results>>

\* One pass of the inner loop's body, to all_results.append(entry).
ProcessFile ==
    /\ pc = "walk"
    /\ queue # <<>>
    /\ LET fname == Head(queue)
           dir == root.dirs[di]
           got == dispatch(fname, lookup(dir, fname))
       IN IF got.raised
          THEN /\ pc' = "crashed"
               /\ UNCHANGED <<queue, all_results>>
          ELSE /\ all_results' =
                      Append(all_results,
                             got.fields @@ [file |-> relpath(dir.rel, fname)])
               /\ queue' = Tail(queue)
               /\ pc' = pc
    /\ UNCHANGED <<file, result, root, di>>

\* The walk is over: the report is printed.
PrintReport ==
    /\ pc = "walk"
    /\ queue = <<>>
    /\ di = Len(root.dirs)
    /\ pc' = "printed"
    /\ UNCHANGED <<file, result, root, di, queue, all_results>>

NextWalk == CheckRoot \/ NextDir \/ ProcessFile \/ PrintReport

(***************************************************************************)
(* The directories explored: at most MaxDirs directories holding at most   *)
(* MaxFiles files in all, the names of a directory distinct, in any order  *)
(* of enumeration.                                                         *)
(***************************************************************************)
A_PY == <<"a", ".", "p", "y">>

B_PY == <<"b", ".", "p", "y">>

DATA_BIN == <<"d", "a", "t", "a", ".", "b", "i", "n">>

OneFunction == <<Def(0, TRUE, <<"f">>, <<>>, <<>>, NoAnn)>>

Unparsable == <<Def(0, FALSE, <<"f">>, <<>>, <<>>, NoAnn)>>

ReadmeLines == <<<<"#", " ", "Title">>, <<>>, <<"Hello", " ", "world">>>>

Holds(fname) ==
    IF fname = A_PY THEN Files({OneFunction, Unparsable})
    ELSE IF fname = B_PY THEN {Readable(OneFunction), Readable(Unparsable)}
    ELSE IF fname = README THEN {Readable(ReadmeLines), Unreadable}
    ELSE {Readable(<<"x", "y">>), Unreadable}

FileNames == {A_PY, B_PY, README, DATA_BIN}

\* The relative path of the k-th directory os.walk yields: the root, "s", "ss".
DirPath(k) == [i \in 1..(k - 1) |-> "s"]

AddFile(dirs, fname, f) ==
    [dirs EXCEPT ![Len(dirs)].listing = Append(@, [name |-> fname, file |-> f])]

\* root is dirs with at most k more files, in the last of dirs or in later ones.
RECURSIVE Listed(_, _)
Listed(dirs, k) ==
    \/ root = [isdir |-> TRUE, dirs |-> dirs]
    \/ /\ k > 0
       /\ \E fname \in FileNames :
             /\ \A i \in 1..Len(dirs[Len(dirs)].listing) :
                   dirs[Len(dirs)].listing[i].name # fname
             /\ \E f \in Holds(fname) : Listed(AddFile(dirs, fname, f), k - 1)
    \/ /\ Len(dirs) < MaxDirs
       /\ Listed(Append(dirs, [rel |-> DirPath(Len(dirs) + 1), listing |-> <<>>]), k)

InitWalk ==
    /\ pc = "main"
    /\ \/ root = [isdir |-> FALSE, dirs |-> <<>>]
       \/ Listed(<<[rel |-> <<>>, listing |-> <<>>]>>, MaxFiles)
    /\ file = NoFile
    /\ result = Raise("")
    /\ di = 0
    /\ queue = <<>>
    /\ all_results = <<>>

SpecWalk == InitWalk /\ [][NextWalk]_vars

(***************************************************************************)
(* Properties of the scanner.                                              *)
(***************************************************************************)
Scanned == pc = "returned" /\ result.py = "list"

FunctionDefs(src) == {i \in 1..Len(src) : src[i].kind \in {"def", "async"}}

PrivateName(name) == name # <<>> /\ name[1] = "_"

RECURSIVE Ancestors(_, _)
Ancestors(src, i) ==
    IF Owner(src, i) = 0 THEN {}
    ELSE {Owner(src, i)} \cup Ancestors(src, Owner(src, i))

\* Not inside the body of a function or of a class.
TopLevel(src, i) ==
    \A a \in Ancestors(src, i) : src[a].kind \notin {"def", "async", "class"}

Recorded(src, metadata, i) ==
    \E k \in 1..Len(metadata) :
        /\ metadata[k].line_number = lineno(src, i)
        /\ metadata[k].name = src[i].name

\* The definition a record was made from.
DefOf(src, rec) ==
    CHOOSE i \in FunctionDefs(src) : lineno(src, i) = rec.line_number

C2_NoPrivateRecord ==
    Scanned =>
        LET src == file.content
        IN /\ \A k \in 1..Len(result.items) : ~PrivateName(result.items[k].name)
           /\ \A i \in FunctionDefs(src) :
                  /\ src[i].kind = "def"
                  /\ ~PrivateName(src[i].name)
                  /\ \E a \in Ancestors(src, i) :
                        src[a].kind = "def" /\ PrivateName(src[a].name)
                  => Recorded(src, result.items, i)

C2_Witness ==
    /\ Scanned
    /\ \E i, a \in FunctionDefs(file.content) :
          /\ a \in Ancestors(file.content, i)
          /\ Owner(file.content, a) # 0
          /\ PrivateName(file.content[a].name)
          /\ file.content[a].kind = "def"
          /\ Recorded(file.content, result.items, i)
          /\ ~Recorded(file.content, result.items, a)

\* C3: the records are in declaration order: line_number is strictly ascending
\* along the sequence, and so is the position of the definitions in the source.
C3_DeclarationOrder ==
    Scanned =>
        \A a, b \in 1..Len(result.items) :
            a < b =>
                /\ result.items[a].line_number < result.items[b].line_number
                /\ DefOf(file.content, result.items[a])
                       < DefOf(file.content, result.items[b])

C3_Witness ==
    /\ Scanned
    /\ \E a, b \in 1..Len(result.items) :
          LET src == file.content
              i == DefOf(src, result.items[a])
              j == DefOf(src, result.items[b])
          IN /\ a < b
             /\ Owner(src, i) # 0 /\ src[Owner(src, i)].kind = "if"
             /\ Owner(src, j) # 0 /\ src[Owner(src, j)].kind = "else"

\* The type the scanner is to give a parameter annotated a.
TypeOf(a) ==
    IF a.node = "None" THEN PyStr("Any")
    ELSE IF a.node = "Name" THEN PyStr(a.id)
    ELSE [py |-> a.vtype, v |-> a.v]

Recognised == {"None", "Name", "Constant"}

\* C4: parameters holds one ParameterRecord per positional parameter, in
\* declaration order, typed "Any" with no annotation, the identifier's name for
\* a bare identifier and the literal's value for a literal constant.
C4_EveryPositionalParameter ==
    Scanned =>
        \A k \in 1..Len(result.items) :
            LET node == file.content[DefOf(file.content, result.items[k])]
                positional == node.posonlyargs \o node.args
                parameters == result.items[k].parameters
            IN /\ Len(parameters) = Len(positional)
               /\ \A i \in 1..Len(positional) :
                     /\ parameters[i].name = positional[i].arg
                     /\ positional[i].annotation.node \in Recognised
                            => parameters[i].type = TypeOf(positional[i].annotation)

\* C5, as stated: a parameter annotated with anything but a bare identifier or
\* a literal constant - a subscript, an attribute, a union, a string-quoted
\* forward reference - has type "Any".
C5_OtherShapesAndForwardRefsAreAny ==
    Scanned =>
        \A k \in 1..Len(result.items) :
            LET node == file.content[DefOf(file.content, result.items[k])]
                parameters == result.items[k].parameters
            IN \A i \in 1..Len(parameters) :
                   LET a == node.args[i].annotation
                   IN \/ a.node \in {"Subscript", "Attribute", "BinOp"}
                      \/ a.node = "Constant" /\ a.vtype = "str"
                      => parameters[i].type = PyStr("Any")

\* C5, amended: a subscript, an attribute or a union has type "Any"; a
\* string-quoted forward reference "Foo" is a literal constant and has its
\* value, the string Foo, as type.
C5_OtherShapesAreAny ==
    Scanned =>
        \A k \in 1..Len(result.items) :
            LET node == file.content[DefOf(file.content, result.items[k])]
                parameters == result.items[k].parameters
            IN /\ Len(parameters) = Len(node.args)
               /\ \A i \in 1..Len(parameters) :
                   LET a == node.args[i].annotation
                   IN /\ a.node \in {"Subscript", "Attribute", "BinOp"}
                          => parameters[i].type = PyStr("Any")
                      /\ a.node = "Constant" /\ a.vtype = "str"
                          => parameters[i].type = PyStr(a.v)

C5_Witness ==
    /\ Scanned
    /\ Len(result.items) = 1
    /\ Len(result.items[1].parameters) = 2
    /\ file.content[1].args[1].annotation = OtherAnn("Subscript")
    /\ result.items[1].parameters[1].type = PyStr("Any")
    /\ file.content[1].args[2].annotation = Constant("str", "Foo")
    /\ result.items[1].parameters[2].type = PyStr("Foo")

\* The documentation string attached to the function of line n, if any.
Attached(src, n) ==
    /\ n < Len(src)
    /\ Owner(src, n + 1) = n
    /\ src[n + 1].kind = "expr"
    /\ src[n + 1].value.vtype = "str"

\* Cleaning leaves a text as it is when it neither starts with whitespace nor
\* ends in a newline and its continuation lines share no indentation.
Clean(text) ==
    LET lines == split_lines(text)
        content == {i \in 2..Len(lines) : lstrip(lines[i]) # <<>>}
    IN /\ text # <<>>
       /\ text[1] \notin Whitespace
       /\ text[Len(text)] # "\n"
       /\ content # {} => \E i \in content : lines[i][1] # " "

\* C6, as stated: description is exactly the attached documentation string,
\* whatever it is, and "No description provided." only when none is attached.
C6_DescriptionIsRawDocstring ==
    Scanned =>
        \A k \in 1..Len(result.items) :
            LET n == DefOf(file.content, result.items[k])
            IN IF Attached(file.content, n)
               THEN result.items[k].description = file.content[n + 1].value.v
               ELSE result.items[k].description = NoDescription

\* C6, amended: description is the attached documentation string cleaned as
\* inspect.cleandoc cleans it (the first line's leading whitespace, the
\* indentation the continuation lines share and the empty lines at both ends
\* removed), so the string itself when it is clean already; it is
\* "No description provided." when no documentation string is attached or the
\* cleaned one is empty.
C6_DescriptionIsCleanedDocstring ==
    Scanned =>
        \A k \in 1..Len(result.items) :
            LET n == DefOf(file.content, result.items[k])
                raw == file.content[n + 1].value.v
                description == result.items[k].description
            IN IF Attached(file.content, n)
               THEN /\ description =
                          IF cleandoc(raw) = <<>> THEN NoDescription ELSE cleandoc(raw)
                    /\ Clean(raw) => description = raw
                    /\ raw = <<>> => description = NoDescription
               ELSE description = NoDescription

C6_Witness ==
    /\ Scanned
    /\ Len(result.items) = 1
    /\ Attached(file.content, 1)
    /\ file.content[2].value.v = <<"x", "\n", " ", " ", "x">>
    /\ result.items[1].description = <<"x", "\n", "x">>

(***************************************************************************)
(* Properties of the prose extractor.                                      *)
(***************************************************************************)
MdReturned == pc = "md_returned" /\ "title" \in DOMAIN result

Headings(lines) ==
    {i \in 1..Len(lines) : lines[i] # <<>> /\ lines[i][1] = "#"}

NonBlank(lines) ==
    {i \in 1..Len(lines) : \E k \in 1..Len(lines[i]) : lines[i][k] \notin Whitespace}

HeadingText(line) == strip(lstrip_chars(line, {"#"}))

\* C10: title is the text of the first line of the file that begins with "#",
\* the markers and the surrounding whitespace removed, wherever that line is
\* (a first heading line with no text after its markers is left aside); the
\* first non-blank line only when no line begins with "#"; the base name only
\* when the file has no non-blank line.
C10_TitleIsFirstHeading ==
    MdReturned =>
        LET lines == file.content
        IN IF Headings(lines) # {}
           THEN HeadingText(lines[Min(Headings(lines))]) # <<>>
                    => result.title = HeadingText(lines[Min(Headings(lines))])
           ELSE IF NonBlank(lines) # {}
           THEN result.title \in {lines[Min(NonBlank(lines))],
                                  strip(lines[Min(NonBlank(lines))])}
           ELSE result.title = README

(***************************************************************************)
(* Properties of the directory walk.                                       *)
(***************************************************************************)
Printed == pc = "printed"

\* The files the walk is to visit: directory d, place i of its listing.
Visited ==
    {p \in (1..Len(root.dirs)) \X (1..MaxFiles) :
        p[2] <= Len(root.dirs[p[1]].listing)}

NameOf(p) == root.dirs[p[1]].listing[p[2]].name

FileOf(p) == root.dirs[p[1]].listing[p[2]].file

PathOf(p) == relpath(root.dirs[p[1]].rel, NameOf(p))

EntriesOf(p) == {k \in 1..Len(all_results) : all_results[k].file = PathOf(p)}

IsSource(p) == endswith(NameOf(p), <<".", "p", "y">>)

IsProse(p) == endswith(NameOf(p), <<".", "m", "d">>)

CanBeRead(p) == FileOf(p).exists /\ FileOf(p).readable

FailsToParse(p) == IsSource(p) /\ CanBeRead(p) /\ ~SyntaxOK(FileOf(p).content)

\* The entry holds what its kind of file is to give, and no error.
Populated(p, e) ==
    IF IsSource(p)
    THEN /\ DOMAIN e = {"file", "type", "functions"}
         /\ e.type = "python"
         /\ e.functions.py = "list"
         /\ e.functions.items = visit(FileOf(p).content, 0, <<>>)
    ELSE IF IsProse(p)
    THEN DOMAIN e = {"file", "type", "title", "description"} /\ e.type = "markdown"
    ELSE DOMAIN e = {"file", "type", "summary"} /\ e.type = "generic"

\* C7: the walk is never left early; every visited file has exactly one entry;
\* the entries are in the order of the visit, directory after directory and,
\* in a directory, in ascending order of the file names; a source file that
\* fails to parse has an entry with an error, and every file that can be read
\* and parsed has a populated one.
C7_OneEntryPerFileInOrder ==
    /\ pc # "crashed"
    /\ Printed =>
          /\ \A p \in Visited :
                /\ Cardinality(EntriesOf(p)) = 1
                /\ \A k \in EntriesOf(p) :
                      /\ FailsToParse(p) => DOMAIN all_results[k] = {"file", "error"}
                      /\ CanBeRead(p) /\ ~FailsToParse(p)
                            => Populated(p, all_results[k])
          /\ Len(all_results) = Cardinality(Visited)
          /\ \A p, q \in Visited :
                \A k \in EntriesOf(p), l \in EntriesOf(q) :
                    \/ p[1] < q[1]
                    \/ p[1] = q[1] /\ str_lt(NameOf(p), NameOf(q))
                    => k < l

C7_Witness ==
    /\ Printed
    /\ \E p, q, r \in Visited :
          \E k \in EntriesOf(p), l \in EntriesOf(q), m \in EntriesOf(r) :
              /\ k < l /\ l < m
              /\ FailsToParse(q)
              /\ "error" \in DOMAIN all_results[l]
              /\ Populated(p, all_results[k])
              /\ Populated(r, all_results[m])
              /\ p[2] > q[2]

\* C8: a .py file's entry has type "python" and functions, the scanner's
\* sequence, only when the scan succeeded; on any failure - the file does not
\* parse, cannot be read, or does not exist when scan_file is called - the
\* entry has an error field instead of type and functions, and is emitted.
C8_ErrorFieldOnAnyFailure ==
    Printed =>
        \A p \in Visited :
            IsSource(p) =>
                /\ EntriesOf(p) # {}
                /\ \A k \in EntriesOf(p) :
                      IF CanBeRead(p) /\ ~FailsToParse(p)
                      THEN Populated(p, all_results[k])
                      ELSE DOMAIN all_results[k] = {"file", "error"}

\* The directory of C9: a.py with one public function f, README.md with the
\* lines "# Title", "", "Hello world", and data.bin, enumerated in any order.
IsExampleDir ==
    /\ root.isdir
    /\ Len(root.dirs) = 1
    /\ Len(root.dirs[1].listing) = 3
    /\ \A i \in 1..3 :
          LET fname == root.dirs[1].listing[i].name
              f == root.dirs[1].listing[i].file
          IN /\ fname \in {A_PY, README, DATA_BIN}
             /\ f.exists /\ f.readable
             /\ fname = A_PY => f.content = OneFunction
             /\ fname = README => f.content = ReadmeLines

ExampleReport(description) ==
    /\ Len(all_results) = 3
    /\ [i \in 1..3 |-> all_results[i].file] = <<README, A_PY, DATA_BIN>>
    /\ [i \in 1..3 |-> all_results[i].type] = <<"markdown", "python", "generic">>
    /\ Len(all_results[2].functions.items) = 1
    /\ all_results[2].functions.items[1].name = <<"f">>
    /\ all_results[1].title = <<"Title">>
    /\ all_results[1].description = description

\* C9, as stated: the report of that directory has three entries, README.md,
\* a.py, data.bin, of types markdown, python, generic, and README.md has title
\* "Title" and description "Hello world".
C9_ExampleDescriptionIsParagraph ==
    Printed /\ IsExampleDir => ExampleReport(<<"Hello", " ", "world">>)

\* C9, amended: the same report, where README.md has title "Title" and
\* description "# Title": the heading line is the first run of non-blank
\* lines, and the loop stops at the blank line after it.
C9_ExampleDescriptionIsHeadingLine ==
    Printed /\ IsExampleDir => ExampleReport(<<"#", " ", "Title">>)

C9_Witness ==
    /\ Printed
    /\ IsExampleDir
    /\ filenames(root.dirs[1]) = <<DATA_BIN, A_PY, README>>
    /\ ExampleReport(<<"#", " ", "Title">>)

====
